---------------------------- MODULE Spec2Model ----------------------------
(***************************************************************************)
(* A model of pao_equi_ml.py: the construction of a PAO_model (coupling    *)
(* table and index arrays), the assembly of the auxiliary matrix, the      *)
(* forward pass (batching, eigenvector selection, gradient buffers), the   *)
(* steps of the training loop, the loss functions and the block file       *)
(* reader and writer.                                                      *)
(***************************************************************************)
EXTENDS Integers, Sequences, FiniteSets, TLC

VARIABLES
    \* ---- PAO_model construction and build_aux_H_batch ----
    prim_basis_spec,   \* the channel list prim_basis_spec.ls
    wsel,              \* which tensor family o3.wigner_3j answers with
    psel,              \* which prediction vector is assembled
    batch,             \* the batch size handed to build_aux_H_batch
    irreps_output,     \* result of irreps_output_from_prim_basis
    model,             \* the PAO_model object, NoModel before construction
    pc,                \* position of build_aux_H_batch
    cur,               \* its loop variables idx, jdx, mu_ij
    jdx_shift,         \* its slice counter
    aux_H,             \* the matrix under assembly
    \* ---- init_pao_models, forward and the gradient buffers ----
    atomtype,          \* the kind a model is initialised for
    kind,              \* pao_objects[atomtype][0].kind, as parsed from a file
    data,              \* the batch object handed to forward
    param_grad,        \* the .grad of the model's parameters
    calls,             \* number of forward calls made
    result,            \* what the last forward call returned
    \* ---- the block file and the energy file ----
    pao_in,            \* the arguments of write_pao_file
    pao_file,          \* the lines of the file
    pao_out,           \* what parse_pao_file returned
    energy_file,       \* the text read_cp2k_energy looks at
    energy_out,        \* what read_cp2k_energy returned
    \* ---- the loss functions ----
    loss_in,           \* a batch of predictions and of labels
    loss_out           \* the values the two loss functions returned

asmVars == <<prim_basis_spec, wsel, psel, batch, irreps_output, model, pc,
             cur, jdx_shift, aux_H>>

fwdVars == <<atomtype, kind, data, param_grad, calls, result>>

fileVars == <<pao_in, pao_file, pao_out, energy_file, energy_out>>

lossVars == <<loss_in, loss_out>>

vars == <<asmVars, fwdVars, fileVars, lossVars>>

-----------------------------------------------------------------------------
(* Bounds of the model.                                                    *)
MaxChannels == 2
MaxL == 1
MaxBatch == 2
MaxSel == 2
MaxNeighbours == 3
MaxCalls == 2
MaxKinds == 2
MaxAtoms == 2
MaxDim == 2
MaxMatrices == 12
MaxKeyChannels == 3
MaxPasses == 38

-----------------------------------------------------------------------------
(* Small helpers.                                                          *)
Abs(x) == IF x < 0 THEN -x ELSE x

Min(a, b) == IF a < b THEN a ELSE b

RECURSIVE SumSeq(_)
SumSeq(s) == IF s = <<>> THEN 0 ELSE Head(s) + SumSeq(Tail(s))

\* torch.cumsum(v, dim=0)
CumSum(s) == [k \in 1..Len(s) |-> SumSeq(SubSeq(s, 1, k))]

\* str(n) of a non-negative integer, as its decimal digits
RECURSIVE Str(_)
Str(n) == IF n < 10 THEN <<n>> ELSE Str(n \div 10) \o <<n % 10>>

\* e3nn: Irreps.dim of a channel list
IrrepsDim(ls) == SumSeq([k \in 1..Len(ls) |-> 2 * ls[k] + 1])

-----------------------------------------------------------------------------
(* The parity test of line 156.  Python reads "a and b or c and d" as       *)
(* "(a and b) or (c and d)".                                                *)
ParityRuleFlipped(mu_i, mu_j, mu_ij) ==
    \/ (mu_i % 2 = mu_j % 2 /\ mu_ij % 2 = 1)
    \/ (mu_i % 2 # mu_j % 2 /\ mu_ij % 2 = 0)

ParityRule(mu_i, mu_j, mu_ij) ==
    \/ (mu_i % 2 = mu_j % 2 /\ mu_ij % 2 = 0)
    \/ (mu_i % 2 # mu_j % 2 /\ mu_ij % 2 = 1)

\* the dictionary key f"{mu_i}{mu_j}{mu_ij}"
WignerKey(mu_i, mu_j, mu_ij) == Str(mu_i) \o Str(mu_j) \o Str(mu_ij)

(* The three nested loops of PAO_model.__init__, lines 150-161.  acc is     *)
(* the record of what the loops have appended so far: the slice lengths     *)
(* idx_in, the visited triples, and the dictionary.  idx and jdx count from *)
(* 0 as in the code.                                                        *)
InitVisit(acc, idx, jdx, mu_i, mu_j, mu_ij) ==
    IF ParityRule(mu_i, mu_j, mu_ij)
    THEN [idx_in  |-> Append(acc.idx_in, 2 * mu_ij + 1),
          triples |-> Append(acc.triples,
                             [i |-> idx, j |-> idx + jdx, l_i |-> mu_i,
                              l_j |-> mu_j, l_c |-> mu_ij]),
          wigner_dict |->
              [k \in DOMAIN acc.wigner_dict \cup {WignerKey(mu_i, mu_j, mu_ij)} |->
                  IF k = WignerKey(mu_i, mu_j, mu_ij)
                  THEN <<mu_i, mu_j, mu_ij>>
                  ELSE acc.wigner_dict[k]]]
    ELSE acc

RECURSIVE InitMuLoop(_, _, _, _, _, _)
InitMuLoop(acc, idx, jdx, mu_i, mu_j, mu_ij) ==
    IF mu_ij >= mu_i + mu_j + 1 THEN acc
    ELSE InitMuLoop(InitVisit(acc, idx, jdx, mu_i, mu_j, mu_ij),
                    idx, jdx, mu_i, mu_j, mu_ij + 1)

RECURSIVE InitJLoop(_, _, _, _)
InitJLoop(acc, ls, idx, jdx) ==
    IF idx + jdx >= Len(ls) THEN acc
    ELSE InitJLoop(InitMuLoop(acc, idx, jdx, ls[idx + 1], ls[idx + jdx + 1],
                              Abs(ls[idx + 1] - ls[idx + jdx + 1])),
                   ls, idx, jdx + 1)

RECURSIVE InitILoop(_, _, _)
InitILoop(acc, ls, idx) ==
    IF idx >= Len(ls) THEN acc
    ELSE InitILoop(InitJLoop(acc, ls, idx, 0), ls, idx + 1)

WignerLoops(ls) ==
    InitILoop([idx_in |-> <<>>, triples |-> <<>>, wigner_dict |-> <<>>], ls, 0)

\* no model yet, and a construction that raised
NoModel == [built |-> FALSE, error |-> FALSE]

ModelError == [built |-> FALSE, error |-> TRUE]

(* PAO_model.__init__.  Line 134 asks the channel list for its lmax, which  *)
(* e3nn refuses for an empty list; no other argument is examined.           *)
PAO_model_init(pao_basis_size, spec, prim_basis_size) ==
    IF spec = <<>> THEN ModelError
    ELSE LET w == WignerLoops(spec)
             lens == [k \in 1..Len(spec) |-> 2 * spec[k] + 1]
             out == CumSum(w.idx_in)
             hout == CumSum(lens)
         IN  [built          |-> TRUE,
              error          |-> FALSE,
              dim            |-> prim_basis_size,
              prim_basis_size |-> prim_basis_size,
              pao_basis_size |-> pao_basis_size,
              prim_basis_spec |-> spec,
              triples        |-> w.triples,
              wigner_dict    |-> w.wigner_dict,
              idx_out        |-> out,
              idx_in         |-> [k \in 1..Len(out) |-> out[k] - w.idx_in[k]],
              aux_H_idx_out  |-> hout,
              aux_H_idx_in   |-> [k \in 1..Len(hout) |-> hout[k] - lens[k]]]

-----------------------------------------------------------------------------
(* irreps_output_from_prim_basis, lines 418-429.  An irrep is [l, p]; an    *)
(* Irreps object is a sequence of [mul, l, p].                              *)

\* e3nn: Irrep.__mul__, every l from |l1-l2| to l1+l2 with parity p1*p2
IrrepMul(ir1, ir2) ==
    [k \in 1..(ir1.l + ir2.l - Abs(ir1.l - ir2.l) + 1) |->
        [l |-> Abs(ir1.l - ir2.l) + k - 1, p |-> ir1.p * ir2.p]]

\* (-1)**l
NaturalParity(l) == IF l % 2 = 0 THEN 1 ELSE -1

OutputParityRuleEvenOnly(ir) == ir.l % 2 = 0 /\ ir.p = 1

\* line 427
OutputParityRule(ir) == (ir.l % 2 = 0 /\ ir.p = 1) \/ (ir.l % 2 = 1 /\ ir.p = -1)

RECURSIVE OutIrLoop(_, _, _)
OutIrLoop(all_ir, mul, k) ==
    IF k > Len(mul) THEN all_ir
    ELSE OutIrLoop(IF OutputParityRule(mul[k])
                   THEN Append(all_ir, [mul |-> 1, l |-> mul[k].l, p |-> mul[k].p])
                   ELSE all_ir,
                   mul, k + 1)

RECURSIVE OutL2Loop(_, _, _, _)
OutL2Loop(all_ir, ls, idx, k) ==
    IF k > Len(ls) THEN all_ir
    ELSE OutL2Loop(OutIrLoop(all_ir,
                             IrrepMul([l |-> ls[idx], p |-> NaturalParity(ls[idx])],
                                      [l |-> ls[k], p |-> NaturalParity(ls[k])]),
                             1),
                   ls, idx, k + 1)

RECURSIVE OutL1Loop(_, _, _)
OutL1Loop(all_ir, ls, idx) ==
    IF idx > Len(ls) THEN all_ir
    ELSE OutL1Loop(OutL2Loop(all_ir, ls, idx, idx), ls, idx + 1)

\* e3nn: Irreps.simplify, adjacent equal irreps merge into one entry
RECURSIVE Simplify(_, _)
Simplify(out, irreps) ==
    IF irreps = <<>> THEN out
    ELSE LET h == Head(irreps)
             n == Len(out)
         IN  IF n > 0 /\ out[n].l = h.l /\ out[n].p = h.p
             THEN Simplify([out EXCEPT ![n].mul = out[n].mul + h.mul], Tail(irreps))
             ELSE IF h.mul > 0 THEN Simplify(Append(out, h), Tail(irreps))
             ELSE Simplify(out, Tail(irreps))

irreps_output_from_prim_basis(ls) == Simplify(<<>>, OutL1Loop(<<>>, ls, 1))

\* e3nn: Irreps.ls, each l repeated mul times
RECURSIVE IrrepsLs(_)
IrrepsLs(irreps) ==
    IF irreps = <<>> THEN <<>>
    ELSE [k \in 1..Head(irreps).mul |-> Head(irreps).l] \o IrrepsLs(Tail(irreps))

-----------------------------------------------------------------------------
(* Tensors.  A tensor is a function from 0..d-1 in each dimension, as the   *)
(* code indexes it.                                                         *)

\* o3.wigner_3j(l1, l2, l3): a tensor of shape (2l1+1, 2l2+1, 2l3+1) whose
\* entries the code does not control.  Family 1 is symmetric in its first
\* two indices whenever l1 = l2, the others are not.
wigner_3j(sel, l1, l2, l3) ==
    [a \in 0..(2 * l1) |-> [c \in 0..(2 * l2) |-> [k \in 0..(2 * l3) |->
        (a + 1) * (c + 1) + k + l3 + (sel - 1) * c]]]

\* lines 158-161: the tensor times its own central element
WignerM(sel, mu_i, mu_j, mu_ij) ==
    LET wigner_m == wigner_3j(sel, mu_i, mu_j, mu_ij)
        wig_zero_factor ==
            wigner_m[(2 * mu_i + 1) \div 2][(2 * mu_j + 1) \div 2][(2 * mu_ij + 1) \div 2]
    IN  [a \in DOMAIN wigner_m |-> [c \in DOMAIN wigner_m[a] |->
            [k \in DOMAIN wigner_m[a][c] |-> wig_zero_factor * wigner_m[a][c][k]]]]

\* the prediction vector of sample b at position p, entries in -1..1
Pred(sel, b, p) == (((p + 1) * sel + b) % 3) - 1

Size(f) == Cardinality(DOMAIN f)

SwapAt(t, p, q) ==
    [k \in 1..Len(t) |-> IF k = p THEN t[q] ELSE IF k = q THEN t[p] ELSE t[k]]

\* torch.transpose of a 2-d and of a 3-d tensor
Transpose2(T) ==
    [x \in 0..(Size(T[0]) - 1) |-> [y \in 0..(Size(T) - 1) |-> T[y][x]]]

Transpose3(T, dim0, dim1) ==
    LET s == SwapAt(<<Size(T), Size(T[0]), Size(T[0][0])>>, dim0 + 1, dim1 + 1)
    IN  [x \in 0..(s[1] - 1) |-> [y \in 0..(s[2] - 1) |-> [z \in 0..(s[3] - 1) |->
            LET j == SwapAt(<<x, y, z>>, dim0 + 1, dim1 + 1)
            IN  T[j[1]][j[2]][j[3]]]]]

\* torch.matmul of a (I, J, K) tensor with a (K, B) matrix: shape (I, J, B)
MatMul(W, M) ==
    [a \in DOMAIN W |-> [c \in DOMAIN W[a] |-> [b \in DOMAIN M[0] |->
        SumSeq([k \in 1..Size(M) |-> W[a][c][k - 1] * M[k - 1][b]])]]]

\* the product of lines 214-219 brought to shape (B, I, J) by a reshape
\* instead of the two transposes
ContractionCoefficientsReshaped(wigner_m, pred_block) ==
    LET P == MatMul(wigner_m, Transpose2(pred_block))
        I == Size(P)
        J == Size(P[0])
        B == Size(P[0][0])
    IN  [b \in 0..(B - 1) |-> [a \in 0..(I - 1) |-> [c \in 0..(J - 1) |->
            LET f == (b * I + a) * J + c
            IN  P[f \div (J * B)][(f \div B) % J][f % B]]]]

\* lines 214-219
ContractionCoefficients(wigner_m, pred_block) ==
    Transpose3(Transpose3(MatMul(wigner_m, Transpose2(pred_block)), 0, 2), 1, 2)

-----------------------------------------------------------------------------
(* build_aux_H_batch, lines 197-230, one action per pass of the innermost   *)
(* loop.  cur holds idx, jdx and mu_ij.                                     *)

\* line 208
ParityRuleBatch(mu_i, mu_j, mu_ij) ==
    \/ (mu_i % 2 = mu_j % 2 /\ mu_ij % 2 = 0)
    \/ (mu_i % 2 # mu_j % 2 /\ mu_ij % 2 = 1)

\* no pass: before the loops and after the last one
EndPass == [idx |-> -1, jdx |-> -1, mu_ij |-> -1]

\* the loop headers of lines 202-206: the pass after cur, EndPass after the last
NextPass(ls, c) ==
    IF c.mu_ij + 1 < ls[c.idx + 1] + ls[c.idx + c.jdx + 1] + 1
    THEN [c EXCEPT !.mu_ij = c.mu_ij + 1]
    ELSE IF c.idx + c.jdx + 1 < Len(ls)
    THEN [idx |-> c.idx, jdx |-> c.jdx + 1,
          mu_ij |-> Abs(ls[c.idx + 1] - ls[c.idx + c.jdx + 2])]
    ELSE IF c.idx + 1 < Len(ls)
    THEN [idx |-> c.idx + 1, jdx |-> 0, mu_ij |-> 0]
    ELSE EndPass

\* the length of the prediction vector, tp_out's irreps_out.dim
PredDim == IrrepsDim(IrrepsLs(irreps_output))

\* lines 222-228 without the mirrored write
AccumulateNoMirror(H, m, c, cc) ==
    LET r0 == m.aux_H_idx_in[c.idx + 1]
        r1 == m.aux_H_idx_out[c.idx + 1]
        c0 == m.aux_H_idx_in[c.idx + c.jdx + 1]
        c1 == m.aux_H_idx_out[c.idx + c.jdx + 1]
    IN  [b \in DOMAIN H |-> [r \in DOMAIN H[b] |-> [q \in DOMAIN H[b][r] |->
            H[b][r][q]
            + (IF r0 <= r /\ r < r1 /\ c0 <= q /\ q < c1
               THEN cc[b][r - r0][q - c0] ELSE 0)]]]

\* lines 222-228: the block (idx, idx+jdx) and, off the diagonal, its mirror
Accumulate(H, m, c, cc) ==
    LET r0 == m.aux_H_idx_in[c.idx + 1]
        r1 == m.aux_H_idx_out[c.idx + 1]
        c0 == m.aux_H_idx_in[c.idx + c.jdx + 1]
        c1 == m.aux_H_idx_out[c.idx + c.jdx + 1]
    IN  [b \in DOMAIN H |-> [r \in DOMAIN H[b] |-> [q \in DOMAIN H[b][r] |->
            H[b][r][q]
            + (IF r0 <= r /\ r < r1 /\ c0 <= q /\ q < c1
               THEN cc[b][r - r0][q - c0] ELSE 0)
            + (IF c.idx # c.idx + c.jdx /\ c0 <= r /\ r < c1 /\ r0 <= q /\ q < r1
               THEN cc[b][q - r0][r - c0] ELSE 0)]]]

\* what one included pass needs to exist: the slice counter inside idx_in
\* and idx_out, the slice inside the prediction vector, the dictionary entry
\* with the shape the block and the slice have
PassIsSound(m, c) ==
    LET mu_i == m.prim_basis_spec[c.idx + 1]
        mu_j == m.prim_basis_spec[c.idx + c.jdx + 1]
        key == WignerKey(mu_i, mu_j, c.mu_ij)
    IN  /\ jdx_shift < Len(m.idx_in)
        /\ m.idx_out[jdx_shift + 1] <= PredDim
        /\ key \in DOMAIN m.wigner_dict
        /\ m.wigner_dict[key] = <<mu_i, mu_j, c.mu_ij>>
        /\ m.idx_out[jdx_shift + 1] - m.idx_in[jdx_shift + 1] = 2 * c.mu_ij + 1

\* lines 198-199 and the first loop headers
BuildAuxHBatchBegin ==
    /\ pc = "ready"
    /\ aux_H' = [b \in 0..(batch - 1) |->
                   [r \in 0..(IrrepsDim(model.prim_basis_spec) - 1) |->
                       [q \in 0..(IrrepsDim(model.prim_basis_spec) - 1) |-> 0]]]
    /\ jdx_shift' = 0
    /\ cur' = [idx |-> 0, jdx |-> 0, mu_ij |-> 0]
    /\ pc' = "loop"
    /\ UNCHANGED <<prim_basis_spec, wsel, psel, batch, irreps_output, model>>
    /\ UNCHANGED <<fwdVars, fileVars, lossVars>>

\* a pass whose triple passes the parity test: lines 210-229
BuildAuxHBatchContract ==
    /\ pc = "loop"
    /\ LET ls == model.prim_basis_spec
           mu_i == ls[cur.idx + 1]
           mu_j == ls[cur.idx + cur.jdx + 1]
       IN  /\ ParityRuleBatch(mu_i, mu_j, cur.mu_ij)
           /\ IF PassIsSound(model, cur)
              THEN LET t == model.wigner_dict[WignerKey(mu_i, mu_j, cur.mu_ij)]
                       wigner_m == WignerM(wsel, t[1], t[2], t[3])
                       lo == model.idx_in[jdx_shift + 1]
                       hi == model.idx_out[jdx_shift + 1]
                       pred_block ==
                           [b \in 0..(batch - 1) |->
                               [k \in 0..(hi - lo - 1) |-> Pred(psel, b, lo + k)]]
                       cc == ContractionCoefficients(wigner_m, pred_block)
                   IN  /\ aux_H' = Accumulate(aux_H, model, cur, cc)
                       /\ jdx_shift' = jdx_shift + 1
                       /\ cur' = NextPass(ls, cur)
                       /\ pc' = IF NextPass(ls, cur) = EndPass THEN "done" ELSE "loop"
              ELSE /\ pc' = "error"
                   /\ UNCHANGED <<aux_H, jdx_shift, cur>>
    /\ UNCHANGED <<prim_basis_spec, wsel, psel, batch, irreps_output, model>>
    /\ UNCHANGED <<fwdVars, fileVars, lossVars>>

\* a pass whose triple fails the parity test: nothing but the loop headers
BuildAuxHBatchSkip ==
    /\ pc = "loop"
    /\ LET ls == model.prim_basis_spec
       IN  /\ ~ParityRuleBatch(ls[cur.idx + 1], ls[cur.idx + cur.jdx + 1], cur.mu_ij)
           /\ cur' = NextPass(ls, cur)
           /\ pc' = IF NextPass(ls, cur) = EndPass THEN "done" ELSE "loop"
    /\ UNCHANGED <<prim_basis_spec, wsel, psel, batch, irreps_output, model,
                   jdx_shift, aux_H>>
    /\ UNCHANGED <<fwdVars, fileVars, lossVars>>

-----------------------------------------------------------------------------
(* build_aux_H, lines 169-195: the assembly for one prediction vector.      *)

\* line 179
ParityRuleSingle(mu_i, mu_j, mu_ij) ==
    \/ (mu_i % 2 = mu_j % 2 /\ mu_ij % 2 = 0)
    \/ (mu_i % 2 # mu_j % 2 /\ mu_ij % 2 = 1)

\* lines 181-183: torch.matmul of a (I, J, K) tensor with a vector of K entries
ContractionCoefficientsSingle(wigner_m, pred_slice) ==
    [a \in DOMAIN wigner_m |-> [c \in DOMAIN wigner_m[a] |->
        SumSeq([k \in 1..Size(pred_slice) |-> wigner_m[a][c][k - 1] * pred_slice[k - 1]])]]

\* lines 185-191
AccumulateSingle(H, m, c, cc) ==
    LET r0 == m.aux_H_idx_in[c.idx + 1]
        r1 == m.aux_H_idx_out[c.idx + 1]
        c0 == m.aux_H_idx_in[c.idx + c.jdx + 1]
        c1 == m.aux_H_idx_out[c.idx + c.jdx + 1]
    IN  [r \in DOMAIN H |-> [q \in DOMAIN H[r] |->
            H[r][q]
            + (IF r0 <= r /\ r < r1 /\ c0 <= q /\ q < c1
               THEN cc[r - r0][q - c0] ELSE 0)
            + (IF c.idx # c.idx + c.jdx /\ c0 <= r /\ r < c1 /\ r0 <= q /\ q < r1
               THEN Transpose2(cc)[r - c0][q - r0] ELSE 0)]]

\* the loops of lines 174-192 from pass c on, shift being jdx_shift
RECURSIVE BuildAuxHLoop(_, _, _, _, _, _)
BuildAuxHLoop(H, m, sel, pred, c, shift) ==
    IF c = EndPass THEN H
    ELSE LET ls == m.prim_basis_spec
             mu_i == ls[c.idx + 1]
             mu_j == ls[c.idx + c.jdx + 1]
         IN  IF ParityRuleSingle(mu_i, mu_j, c.mu_ij)
             THEN LET t == m.wigner_dict[WignerKey(mu_i, mu_j, c.mu_ij)]
                      lo == m.idx_in[shift + 1]
                      hi == m.idx_out[shift + 1]
                      cc == ContractionCoefficientsSingle(
                                WignerM(sel, t[1], t[2], t[3]),
                                [k \in 0..(hi - lo - 1) |-> pred[lo + k]])
                  IN  BuildAuxHLoop(AccumulateSingle(H, m, c, cc), m, sel, pred,
                                    NextPass(ls, c), shift + 1)
             ELSE BuildAuxHLoop(H, m, sel, pred, NextPass(ls, c), shift)

build_aux_H(m, sel, pred) ==
    BuildAuxHLoop([r \in 0..(IrrepsDim(m.prim_basis_spec) - 1) |->
                      [q \in 0..(IrrepsDim(m.prim_basis_spec) - 1) |-> 0]],
                  m, sel, pred, [idx |-> 0, jdx |-> 0, mu_ij |-> 0], 0)

-----------------------------------------------------------------------------
(* Construction.                                                            *)

\* line 517 for a given channel list
IrrepsOutputFromPrimBasis ==
    /\ pc = "new"
    /\ irreps_output' = irreps_output_from_prim_basis(prim_basis_spec)
    /\ pc' = "spec"
    /\ UNCHANGED <<prim_basis_spec, wsel, psel, batch, model, cur,
                   jdx_shift, aux_H>>
    /\ UNCHANGED <<fwdVars, fileVars, lossVars>>

\* PAO_model(...) for a given channel list, its size taken from the list
\* (line 515) and the smallest reduced size
NewPAOModel ==
    /\ pc = "spec"
    /\ model' = PAO_model_init(1, prim_basis_spec, IrrepsDim(prim_basis_spec))
    /\ pc' = IF model'.error THEN "error" ELSE "ready"
    /\ UNCHANGED <<prim_basis_spec, wsel, psel, batch, irreps_output, cur,
                   jdx_shift, aux_H>>
    /\ UNCHANGED <<fwdVars, fileVars, lossVars>>

ChannelLists ==
    UNION {[1..n -> 0..MaxL] : n \in 0..MaxChannels}

\* nothing parsed, no batch, no call made
NoKind == [prim_basis_size |-> -1, pao_basis_size |-> -1]

NoData == [nbrs |-> <<>>, x_grad |-> <<>>, fresh |-> TRUE]

NoResult == [status |-> "none"]

IdleForward ==
    /\ atomtype = "H"
    /\ kind = NoKind
    /\ data = NoData
    /\ param_grad = <<>>
    /\ calls = 0
    /\ result = NoResult

NoFile == [written |-> FALSE, damage |-> "none", where |-> "", lines |-> <<>>]

NoEnergyFile == [given |-> FALSE, exists |-> FALSE, lines |-> <<>>]

IdleFile ==
    /\ pao_in = [kinds |-> <<>>, atom2kind |-> <<>>, coords |-> <<>>, xblocks |-> <<>>]
    /\ pao_file = NoFile
    /\ pao_out = [status |-> "none"]
    /\ energy_file = NoEnergyFile
    /\ energy_out = [status |-> "none"]

NoLoss == [single |-> <<>>, batch |-> <<>>]

IdleLoss ==
    /\ loss_in = [how |-> "none", pred |-> <<>>, label |-> <<>>]
    /\ loss_out = NoLoss

IdleAssembler ==
    /\ irreps_output = <<>>
    /\ model = NoModel
    /\ pc = "new"
    /\ cur = EndPass
    /\ jdx_shift = 0
    /\ aux_H = <<>>

Init ==
    /\ prim_basis_spec \in ChannelLists
    /\ wsel \in 1..MaxSel
    /\ psel \in 1..MaxSel
    /\ batch \in 1..MaxBatch
    /\ IdleAssembler
    /\ IdleForward
    /\ IdleFile
    /\ IdleLoss

Next ==
    \/ IrrepsOutputFromPrimBasis
    \/ NewPAOModel
    \/ BuildAuxHBatchBegin
    \/ BuildAuxHBatchContract
    \/ BuildAuxHBatchSkip

Spec == Init /\ [][Next]_vars

(* Construction and assembly for channel lists whose angular momenta have   *)
(* one or two decimal digits.                                               *)
KeyLs == {0, 1, 11}

\* the passes of the innermost loop of lines 150-154 for a channel list
Passes(ls) ==
    SumSeq([i \in 1..Len(ls) |->
        SumSeq([d \in 1..(Len(ls) - i + 1) |-> 2 * Min(ls[i], ls[i + d - 1]) + 1])])

KeyChannelLists ==
    {ls \in UNION {[1..n -> KeyLs] : n \in 1..MaxKeyChannels} : Passes(ls) <= MaxPasses}

InitKeys ==
    /\ prim_basis_spec \in KeyChannelLists
    /\ wsel = 1
    /\ psel = 1
    /\ batch = 1
    /\ IdleAssembler
    /\ IdleForward
    /\ IdleFile
    /\ IdleLoss

SpecKeys == InitKeys /\ [][Next]_vars

-----------------------------------------------------------------------------
(* init_pao_models and PAO_model.forward.                                   *)

\* lines 27-30, each specification as its channel list (Irreps.ls)
prim_basis_specs == [O |-> <<0, 0, 1, 1, 2>>, H |-> <<0, 0, 1>>]

(* init_pao_models for one kind, lines 511-531.  The reduced size is the    *)
(* one parsed from the file; the primitive size handed on is the dimension  *)
(* of the dictionary's specification, the parsed one is not read.           *)
InitPaoModels ==
    /\ pc = "new"
    /\ LET spec == prim_basis_specs[atomtype]
       IN  /\ prim_basis_spec' = spec
           /\ irreps_output' = irreps_output_from_prim_basis(spec)
           /\ model' = PAO_model_init(kind.pao_basis_size, spec, IrrepsDim(spec))
    /\ pc' = IF model'.error THEN "error" ELSE "ready"
    /\ UNCHANGED <<wsel, psel, batch, cur, jdx_shift, aux_H>>
    /\ UNCHANGED <<fwdVars, fileVars, lossVars>>

\* the next pass of the loop over a DataLoader (lines 542 and 564): a new
\* batch, per sample its number of neighbour rows, concatenated in data.pos;
\* data.x is a new tensor without .grad, the last prediction is dropped
NewData(nbrs) ==
    /\ model.built
    /\ data' = [nbrs |-> nbrs, x_grad |-> <<>>, fresh |-> TRUE]
    /\ result' = NoResult
    /\ UNCHANGED <<atomtype, kind, param_grad, calls>>
    /\ UNCHANGED <<asmVars, fileVars, lossVars>>

\* the sample whose neighbour rows hold row r of data.pos (rows from 0)
RECURSIVE Owner(_, _)
Owner(nbrs, r) ==
    IF r < Head(nbrs) THEN 0 ELSE 1 + Owner(Tail(nbrs), r - Head(nbrs))

\* Q[:, :, -m:], the last m columns
SelectedColumnsLast(n, m) ==
    [k \in 1..Min(IF m < 0 THEN 0 ELSE m, n) |->
        n - Min(IF m < 0 THEN 0 ELSE m, n) + k - 1]

\* line 251, Q[:, :, :m]: the columns a Python slice with stop m keeps
SelectedColumns(n, m) ==
    [k \in 1..(IF m >= 0 THEN Min(m, n) ELSE IF n + m > 0 THEN n + m ELSE 0) |->
        k - 1]

\* torch.linalg.eigh: eigenvalues in ascending order, here e0 + k \div gap
EighValues(n, fam) == [k \in 1..n |-> fam[1] + (k \div fam[2])]

EighFamilies == {<<-2, 1>>, <<0, 2>>}

(* forward, lines 232-255.  A gradient buffer is the sequence of the        *)
(* backward passes that have added into it: its value is their sum.         *)
Forward(fam) ==
    /\ model.built
    /\ data.nbrs # <<>>
    /\ calls < MaxCalls
    /\ calls' = calls + 1
    /\ LET batch_size == Len(data.nbrs)
           n_edge_vec == SumSeq(data.nbrs)
           per == n_edge_vec \div batch_size
           n == IrrepsDim(model.prim_basis_spec)
           columns == SelectedColumns(n, model.pao_basis_size)
           this == [src |-> "pao_vectors", call |-> calls + 1]
       IN  IF batch_size * per # n_edge_vec
           THEN \* line 237: reshape raises
                /\ result' = [status |-> "error", call |-> calls + 1]
                /\ data' = [data EXCEPT !.fresh = FALSE]
                /\ UNCHANGED param_grad
           ELSE /\ data' = [data EXCEPT !.x_grad = Append(@, this),
                                        !.fresh = FALSE]
                /\ param_grad' = <<this>>
                /\ result' =
                      [status      |-> "ok",
                       call        |-> calls + 1,
                       was_fresh   |-> data.fresh,
                       zeroed      |-> FALSE,
                       backward    |-> FALSE,
                       stepped     |-> FALSE,
                       step        |-> <<>>,
                       shifted_by  |-> [r \in 1..n_edge_vec |-> (r - 1) \div per],
                       summed_into |-> [r \in 1..n_edge_vec |-> (r - 1) \div per],
                       owner       |-> [r \in 1..n_edge_vec |-> Owner(data.nbrs, r - 1)],
                       L           |-> EighValues(n, fam),
                       selected    |-> columns,
                       rows        |-> Len(columns),
                       cols        |-> n,
                       gradients   |-> Append(data.x_grad, this)]
    /\ UNCHANGED <<atomtype, kind>>
    /\ UNCHANGED <<asmVars, fileVars, lossVars>>

\* optimizer.zero_grad() left out: the buffers keep what they hold
optimizer_zero_grad_skipped(grad) == grad

\* optimizer.zero_grad(), line 545: the optimizer was given
\* model.parameters() (line 645), every buffer is emptied
optimizer_zero_grad(grad) == <<>>

\* line 545, after the forward call of line 544
OptimizerZeroGrad ==
    /\ result.status = "ok"
    /\ ~result.zeroed
    /\ param_grad' = optimizer_zero_grad(param_grad)
    /\ result' = [result EXCEPT !.zeroed = TRUE]
    /\ UNCHANGED <<atomtype, kind, data, calls>>
    /\ UNCHANGED <<asmVars, fileVars, lossVars>>

\* loss.backward() on the loss of the last prediction, lines 546-547
LossBackward ==
    /\ result.status = "ok"
    /\ result.zeroed
    /\ ~result.backward
    /\ LET this == [src |-> "loss", call |-> result.call]
       IN  /\ data' = [data EXCEPT !.x_grad = Append(@, this)]
           /\ param_grad' = Append(param_grad, this)
    /\ result' = [result EXCEPT !.backward = TRUE]
    /\ UNCHANGED <<atomtype, kind, calls>>
    /\ UNCHANGED <<asmVars, fileVars, lossVars>>

\* optimizer.step(), line 548: the gradient the update is made from
OptimizerStep ==
    /\ result.status = "ok"
    /\ result.backward
    /\ ~result.stepped
    /\ result' = [result EXCEPT !.stepped = TRUE, !.step = param_grad]
    /\ UNCHANGED <<atomtype, kind, data, param_grad, calls>>
    /\ UNCHANGED <<asmVars, fileVars, lossVars>>

Batches == UNION {[1..n -> 1..MaxNeighbours] : n \in 1..MaxBatch}

InitForward ==
    /\ atomtype \in DOMAIN prim_basis_specs
    /\ kind \in [prim_basis_size : {IrrepsDim(prim_basis_specs[atomtype]),
                                     IrrepsDim(prim_basis_specs[atomtype]) + 1},
                  pao_basis_size : (-1)..(IrrepsDim(prim_basis_specs[atomtype]) + 1)]
    /\ data = NoData
    /\ param_grad = <<>>
    /\ calls = 0
    /\ result = NoResult
    /\ prim_basis_spec = <<>>
    /\ wsel = 1
    /\ psel = 1
    /\ batch = 1
    /\ IdleAssembler
    /\ IdleFile
    /\ IdleLoss

NextForward ==
    \/ InitPaoModels
    \/ \E nbrs \in Batches : NewData(nbrs)
    \/ \E fam \in EighFamilies : Forward(fam)
    \/ OptimizerZeroGrad
    \/ LossBackward
    \/ OptimizerStep

SpecForward == InitForward /\ [][NextForward]_vars

-----------------------------------------------------------------------------
(* Properties of the coupling table and of the assembled matrix.            *)

\* the position of a visited triple, for the order of enumeration
Before(s, t) ==
    \/ s.i < t.i
    \/ (s.i = t.i /\ s.j < t.j)
    \/ (s.i = t.i /\ s.j = t.j /\ s.l_c < t.l_c)

\* the triples the selection rule admits for a channel list
AdmittedTriples(ls) ==
    {t \in [i : 0..(Len(ls) - 1), j : 0..(Len(ls) - 1), l_c : 0..(2 * MaxL + 2)] :
        /\ t.i <= t.j
        /\ Abs(ls[t.i + 1] - ls[t.j + 1]) <= t.l_c
        /\ t.l_c <= ls[t.i + 1] + ls[t.j + 1]
        /\ (ls[t.i + 1] + ls[t.j + 1] + t.l_c) % 2 = 0}

(* C4: the table built by PAO_model.__init__ holds a triple (i, j, l_c)     *)
(* exactly when i <= j, |l_i - l_j| <= l_c <= l_i + l_j and the parity rule *)
(* holds, and the triples are visited in order of i, then j, then l_c.      *)
C4_TableIsExact ==
    model.built =>
        LET ls == model.prim_basis_spec
            T == model.triples
        IN  /\ {[i |-> T[k].i, j |-> T[k].j, l_c |-> T[k].l_c] : k \in DOMAIN T}
                   = AdmittedTriples(ls)
            /\ \A k \in DOMAIN T :
                   T[k].l_i = ls[T[k].i + 1] /\ T[k].l_j = ls[T[k].j + 1]
            /\ \A k \in DOMAIN T : \A n \in DOMAIN T :
                   k < n => Before(T[k], T[n])

\* a table with an admitted odd coupling, and a candidate the rule skips
C4_Witness ==
    /\ model.built
    /\ \E k \in DOMAIN model.triples : model.triples[k].l_c % 2 = 1
    /\ \E k \in DOMAIN model.triples :
           /\ model.triples[k].l_i = 1 /\ model.triples[k].l_j = 1
           /\ model.triples[k].l_c = 2
    /\ Len(model.triples) >= 4

(* C5: the slices [idx_in[k], idx_out[k]) start at 0, follow each other     *)
(* without gap or overlap, have length 2*l_c+1 of the k-th triple, and end  *)
(* at the dimension of the output type of irreps_output_from_prim_basis,    *)
(* whose k-th irrep has the degree of the k-th triple; build_aux_H_batch    *)
(* takes one slice per included triple, stays inside the arrays and ends    *)
(* with jdx_shift equal to their length.                                    *)
C5_SlicesMatchOutput ==
    model.built =>
        LET T == model.triples
            n == Len(model.idx_in)
            out_ls == IrrepsLs(irreps_output)
        IN  /\ Len(model.idx_out) = n /\ Len(T) = n
            /\ n > 0 => model.idx_in[1] = 0
            /\ \A k \in 1..n :
                   /\ model.idx_out[k] - model.idx_in[k] = 2 * T[k].l_c + 1
                   /\ k < n => model.idx_in[k + 1] = model.idx_out[k]
            /\ Len(out_ls) = n
            /\ \A k \in 1..n : out_ls[k] = T[k].l_c
            /\ n > 0 => model.idx_out[n] = IrrepsDim(out_ls)
            /\ pc # "error"
            /\ pc = "loop" => jdx_shift <= n
            /\ pc = "done" => jdx_shift = n

\* an assembly that has finished, over an output type that simplify merged
C5_Witness ==
    /\ pc = "done"
    /\ jdx_shift >= 3
    /\ \E k \in DOMAIN irreps_output : irreps_output[k].mul >= 2
    /\ Len(irreps_output) < jdx_shift

\* the rows and columns of block k of the matrix
BlockOf(m, r) ==
    CHOOSE k \in DOMAIN m.aux_H_idx_in :
        m.aux_H_idx_in[k] <= r /\ r < m.aux_H_idx_out[k]

\* every tensor of a diagonal block is symmetric in its first two indices
DiagonalTensorsSymmetric ==
    \A k \in DOMAIN model.triples :
        LET t == model.triples[k]
            w == WignerM(wsel, t.l_i, t.l_j, t.l_c)
        IN  t.i = t.j =>
                \A a \in DOMAIN w : \A c \in DOMAIN w :
                    \A x \in DOMAIN w[a][c] : w[a][c][x] = w[c][a][x]

(* C12: every lookup of the coupling table for an included triple returns  *)
(* the tensor computed for that triple, of shape (2 l_i + 1, 2 l_j + 1,     *)
(* 2 l_c + 1), and no two distinct included triples share a key.  The table *)
(* holds, per key, the triple whose tensor was stored last.                 *)
C12_KeyIsInjective ==
    /\ model.built =>
           /\ \A k \in DOMAIN model.triples :
                  LET t == model.triples[k]
                  IN  model.wigner_dict[WignerKey(t.l_i, t.l_j, t.l_c)]
                          = <<t.l_i, t.l_j, t.l_c>>
           /\ \A k1, k2 \in DOMAIN model.triples :
                  LET t1 == model.triples[k1]
                      t2 == model.triples[k2]
                  IN  WignerKey(t1.l_i, t1.l_j, t1.l_c) = WignerKey(t2.l_i, t2.l_j, t2.l_c)
                          => <<t1.l_i, t1.l_j, t1.l_c>> = <<t2.l_i, t2.l_j, t2.l_c>>
    /\ pc # "error"

(* C14: for every batch size, every batch of prediction vectors and every  *)
(* sample b, the matrix build_aux_H_batch leaves for b equals               *)
(* build_aux_H of b's prediction vector, entry for entry.                   *)
C14_BatchAgreesWithSingle ==
    pc = "done" =>
        \A b \in DOMAIN aux_H :
            aux_H[b] = build_aux_H(model, wsel,
                                   [p \in 0..(PredDim - 1) |-> Pred(psel, b, p)])

\* a finished batch of two samples with different matrices and a non-zero
\* entry in a block that is not square
C14_Witness ==
    /\ pc = "done"
    /\ batch >= 2
    /\ aux_H[0] # aux_H[1]
    /\ \E r \in DOMAIN aux_H[1] : \E c \in DOMAIN aux_H[1] :
           LET i == BlockOf(model, r)
               j == BlockOf(model, c)
           IN  /\ model.prim_basis_spec[i] # model.prim_basis_spec[j]
               /\ aux_H[1][r][c] # 0

(* C2 as stated: after all triples the matrix is symmetric, in the          *)
(* off-diagonal block pairs and in the diagonal blocks alike, whatever the  *)
(* values of the coefficient tensors.                                       *)
C2_SymmetricForAnyTensor ==
    pc = "done" =>
        \A b \in DOMAIN aux_H : \A r \in DOMAIN aux_H[b] : \A c \in DOMAIN aux_H[b] :
            aux_H[b][r][c] = aux_H[b][c][r]

(* C2, amended: after all triples A[b][r][c] = A[b][c][r] for r and c in    *)
(* different blocks, whatever the tensors and the prediction vector; inside *)
(* a diagonal block the entries are symmetric when the tensors of the       *)
(* triples (i, i, l_c) are symmetric in their first two indices.            *)
C2_SymmetricOffDiagonal ==
    pc = "done" =>
        \A b \in DOMAIN aux_H : \A r \in DOMAIN aux_H[b] : \A c \in DOMAIN aux_H[b] :
            (BlockOf(model, r) # BlockOf(model, c) \/ DiagonalTensorsSymmetric)
                => aux_H[b][r][c] = aux_H[b][c][r]

\* a finished matrix with a non-zero entry off the diagonal blocks and a
\* diagonal block of more than one row filled from symmetric tensors
C2_Witness ==
    /\ pc = "done"
    /\ batch >= 2
    /\ DiagonalTensorsSymmetric
    /\ \E k \in DOMAIN model.prim_basis_spec : model.prim_basis_spec[k] = 1
    /\ \E r \in DOMAIN aux_H[1] : \E c \in DOMAIN aux_H[1] :
           /\ BlockOf(model, r) # BlockOf(model, c)
           /\ aux_H[1][r][c] # 0
    /\ \E r \in DOMAIN aux_H[1] : \E c \in DOMAIN aux_H[1] :
           /\ r # c
           /\ BlockOf(model, r) = BlockOf(model, c)
           /\ aux_H[1][r][c] # 0

-----------------------------------------------------------------------------
(* The block file.  A line is the sequence of tokens str.split() finds in   *)
(* it; a string is held as the sequence of its whitespace-separated words,  *)
(* so the empty string is <<>> and a name without blanks is one word.  A    *)
(* real number is held in units of 1e-7.                                    *)

IntTok(n) == [t |-> "int", v |-> n, s |-> ""]

FltTok(v) == [t |-> "flt", v |-> v, s |-> ""]

Word(w) == [t |-> "str", v |-> 0, s |-> w]

\* the tokens a string leaves in a line
Words(str) == [k \in 1..Len(str) |-> Word(str[k])]

\* int(tok) and float(tok) succeed
IsInt(tok) == tok.t = "int"

IsNum(tok) == tok.t \in {"int", "flt"}

\* float(tok) in units of 1e-7
FloatOf(tok) == IF tok.t = "int" THEN tok.v * 10000000 ELSE tok.v

\* "%f" % x, line 369: six decimals, rounded to the nearest
Round6(v) == IF v < 0 THEN -(((-v) + 5) \div 10) * 10 ELSE ((v + 5) \div 10) * 10

\* ndarray.flatten(), line 368: row-major
Flatten(x) ==
    [k \in 1..(x.shape[1] * x.shape[2]) |->
        x.rows[((k - 1) \div x.shape[2]) + 1][((k - 1) % x.shape[2]) + 1]]

\* lines 349-355 for the kind at position i
KindLines(i, kd) ==
    << <<Word("Kind"), IntTok(i)>> \o Words(kd.name) \o <<IntTok(kd.atomic_number)>>,
       <<Word("NParams"), IntTok(i), IntTok(kd.nparams)>>,
       <<Word("PrimBasis"), IntTok(i), IntTok(kd.prim_basis_size)>> \o Words(kd.prim_basis_name),
       <<Word("PaoBasis"), IntTok(i), IntTok(kd.pao_basis_size)>>,
       <<Word("NPaoPotentials"), IntTok(i), IntTok(0)>> >>

RECURSIVE Concat(_)
Concat(ss) == IF ss = <<>> THEN <<>> ELSE Head(ss) \o Concat(Tail(ss))

\* the kind an atom names: kinds[atom2kind[iatom]], 0 when there is none
KindAt(kinds, name) ==
    IF \E k \in DOMAIN kinds : kinds[k].name = name
    THEN CHOOSE k \in DOMAIN kinds : kinds[k].name = name
    ELSE 0

\* the assertions of lines 342-343 and 365-367
WriteAccepts(in) ==
    /\ \A a \in DOMAIN in.coords : Len(in.coords[a]) = 3
    /\ Len(in.xblocks) = Len(in.coords)
    /\ Len(in.atom2kind) >= Len(in.coords)
    /\ \A a \in DOMAIN in.coords :
           /\ KindAt(in.kinds, in.atom2kind[a]) # 0
           /\ Len(in.xblocks[a].shape) = 2
           /\ in.xblocks[a].shape[1] = in.kinds[KindAt(in.kinds, in.atom2kind[a])].pao_basis_size
           /\ in.xblocks[a].shape[2] = in.kinds[KindAt(in.kinds, in.atom2kind[a])].prim_basis_size

\* the lines write_pao_file joins, lines 345-372
WrittenLines(in) ==
    LET natoms == Len(in.coords)
    IN  << <<Word("Version"), IntTok(4)>>,
           <<Word("Parametrization"), Word("EQUIVARIANT")>>,
           <<Word("Nkinds"), IntTok(Len(in.kinds))>> >>
        \o Concat([i \in 1..Len(in.kinds) |-> KindLines(i, in.kinds[i])])
        \o << <<Word("Cell"), FltTok(80000000), FltTok(0), FltTok(0), FltTok(0), FltTok(80000000),
                FltTok(0), FltTok(0), FltTok(0), FltTok(80000000)>>,
               <<Word("Natoms"), IntTok(natoms)>> >>
        \o [a \in 1..natoms |->
               <<Word("Atom"), IntTok(a)>> \o Words(in.atom2kind[a])
               \o [k \in 1..3 |-> FltTok(in.coords[a][k])]]
        \o [a \in 1..natoms |->
               <<Word("Xblock"), IntTok(a)>>
               \o [k \in 1..Len(Flatten(in.xblocks[a])) |->
                       FltTok(Round6(Flatten(in.xblocks[a])[k]))]]
        \o << <<Word("THE_END")>> >>

\* write_pao_file, lines 333-373
WritePaoFile ==
    /\ ~pao_file.written
    /\ ~energy_file.given
    /\ WriteAccepts(pao_in)
    /\ pao_file' = [written |-> TRUE, damage |-> "none", where |-> "",
                    lines |-> WrittenLines(pao_in)]
    /\ UNCHANGED <<pao_in, pao_out, energy_file, energy_out>>
    /\ UNCHANGED <<asmVars, fwdVars, lossVars>>

-----------------------------------------------------------------------------
(* parse_pao_file, lines 259-307.                                           *)

\* AtomicKind(atomic_number=z), lines 64-69
AtomicKind(z) ==
    [atomic_number |-> z, nparams |-> -1, prim_basis_size |-> -1,
     prim_basis_name |-> <<>>, pao_basis_size |-> -1]

NewParse ==
    [err |-> FALSE, ikind2name |-> <<>>, kinds |-> <<>>, atom2kind |-> <<>>,
     coords_list |-> <<>>, xblocks |-> <<>>]

\* kinds[name] = kd: a new key goes last, an old one keeps its place
SetKind(kinds, name, kd) ==
    IF KindAt(kinds, name) # 0
    THEN [kinds EXCEPT ![KindAt(kinds, name)] = [name |-> name, kind |-> kd]]
    ELSE Append(kinds, [name |-> name, kind |-> kd])

\* parts[i] exists and int() takes it
IntAt(parts, i) == Len(parts) > i /\ IsInt(parts[i + 1])

\* kinds[ikind2name[int(parts[1])]] exists
KnownKind(st, parts) ==
    /\ IntAt(parts, 1)
    /\ parts[2].v \in DOMAIN st.ikind2name
    /\ KindAt(st.kinds, st.ikind2name[parts[2].v]) # 0

Failed(st) == [st EXCEPT !.err = TRUE]

\* the kind a NParams, PrimBasis or PaoBasis line speaks of
KindOfLine(st, parts) == KindAt(st.kinds, st.ikind2name[parts[2].v])

\* the body of the loop of line 268 for one line
ParseLine(st, parts) ==
    IF Len(parts) = 0 THEN Failed(st)
    ELSE IF parts[1] = Word("Parametrization")
    THEN IF Len(parts) > 1 /\ parts[2] = Word("EQUIVARIANT") THEN st ELSE Failed(st)
    ELSE IF parts[1] = Word("Kind")
    THEN IF IntAt(parts, 1) /\ IntAt(parts, 3)
         THEN [st EXCEPT
                  !.ikind2name =
                      [k \in DOMAIN st.ikind2name \cup {parts[2].v} |->
                          IF k = parts[2].v THEN parts[3] ELSE st.ikind2name[k]],
                  !.kinds = SetKind(st.kinds, parts[3], AtomicKind(parts[4].v))]
         ELSE Failed(st)
    ELSE IF parts[1] = Word("NParams")
    THEN IF KnownKind(st, parts) /\ IntAt(parts, 2)
         THEN [st EXCEPT !.kinds[KindOfLine(st, parts)].kind.nparams = parts[3].v]
         ELSE Failed(st)
    ELSE IF parts[1] = Word("PrimBasis")
    THEN IF KnownKind(st, parts) /\ IntAt(parts, 2) /\ Len(parts) > 3
         THEN [st EXCEPT
                  !.kinds[KindOfLine(st, parts)].kind.prim_basis_size = parts[3].v,
                  !.kinds[KindOfLine(st, parts)].kind.prim_basis_name = parts[4]]
         ELSE Failed(st)
    ELSE IF parts[1] = Word("PaoBasis")
    THEN IF KnownKind(st, parts) /\ IntAt(parts, 2)
         THEN [st EXCEPT !.kinds[KindOfLine(st, parts)].kind.pao_basis_size = parts[3].v]
         ELSE Failed(st)
    ELSE IF parts[1] = Word("Atom")
    THEN IF Len(parts) > 2
         THEN [st EXCEPT !.atom2kind = Append(@, parts[3]),
                         !.coords_list = Append(@, SubSeq(parts, 4, Len(parts)))]
         ELSE Failed(st)
    ELSE IF parts[1] = Word("Xblock")
    THEN IF \A k \in 3..Len(parts) : IsNum(parts[k])
         THEN [st EXCEPT !.xblocks =
                  Append(@, [k \in 1..(IF Len(parts) > 2 THEN Len(parts) - 2 ELSE 0) |->
                                FloatOf(parts[k + 2])])]
         ELSE Failed(st)
    ELSE st

RECURSIVE ParseLines(_, _)
ParseLines(st, lines) ==
    IF lines = <<>> \/ st.err THEN st
    ELSE ParseLines(ParseLine(st, Head(lines)), Tail(lines))

\* np.array(coords_list, float), line 299
CoordsConvert(coords_list) ==
    /\ \A a \in DOMAIN coords_list : \A k \in DOMAIN coords_list[a] :
           IsNum(coords_list[a][k])
    /\ \A a \in DOMAIN coords_list : \A b \in DOMAIN coords_list :
           Len(coords_list[a]) = Len(coords_list[b])

\* ndarray.reshape(m, n) of a flat array: the shape, <<>> when numpy refuses.
\* One dimension may be -1 and is then inferred.
ReshapeShape(size, m, n) ==
    IF m = -1 /\ n = -1 THEN <<>>
    ELSE IF m = -1 THEN (IF n > 0 /\ size % n = 0 THEN <<size \div n, n>> ELSE <<>>)
    ELSE IF n = -1 THEN (IF m > 0 /\ size % m = 0 THEN <<m, size \div m>> ELSE <<>>)
    ELSE IF m >= 0 /\ n >= 0 /\ m * n = size THEN <<m, n>>
    ELSE <<>>

Reshaped(flat, shape) ==
    [shape |-> shape,
     rows |-> [r \in 1..shape[1] |-> [c \in 1..shape[2] |->
                  flat[(r - 1) * shape[2] + c]]]]

\* lines 302-305 go through for every atom
ReshapeAccepts(st) ==
    \A a \in DOMAIN st.atom2kind :
        /\ KindAt(st.kinds, st.atom2kind[a]) # 0
        /\ a <= Len(st.xblocks)
        /\ ReshapeShape(Len(st.xblocks[a]),
                        st.kinds[KindAt(st.kinds, st.atom2kind[a])].kind.pao_basis_size,
                        st.kinds[KindAt(st.kinds, st.atom2kind[a])].kind.prim_basis_size)
               # <<>>

\* the whole function: the returned tuple, or an exception
parse_pao_file(lines) ==
    LET st == ParseLines(NewParse, lines)
    IN  IF st.err \/ ~CoordsConvert(st.coords_list) \/ ~ReshapeAccepts(st)
        THEN [status |-> "error"]
        ELSE [status |-> "ok",
              kinds |-> st.kinds,
              atom2kind |-> st.atom2kind,
              coords |-> [a \in DOMAIN st.coords_list |->
                             [k \in DOMAIN st.coords_list[a] |->
                                 FloatOf(st.coords_list[a][k])]],
              xblocks |-> [a \in DOMAIN st.atom2kind |->
                  LET kd == st.kinds[KindAt(st.kinds, st.atom2kind[a])].kind
                  IN  Reshaped(st.xblocks[a],
                               ReshapeShape(Len(st.xblocks[a]), kd.pao_basis_size,
                                            kd.prim_basis_size))],
              \* the loop of line 302 runs over the atoms: a block past the
              \* last atom stays flat
              unshaped |-> SubSeq(st.xblocks, Len(st.atom2kind) + 1, Len(st.xblocks))]

ParsePaoFile ==
    /\ pao_file.written
    /\ pao_out.status = "none"
    /\ pao_out' = parse_pao_file(pao_file.lines)
    /\ UNCHANGED <<pao_in, pao_file, energy_file, energy_out>>
    /\ UNCHANGED <<asmVars, fwdVars, lossVars>>

-----------------------------------------------------------------------------
(* A file that reaches the parser damaged: a record missing, a token        *)
(* missing, a keyword that is none of the format's, a field that is no      *)
(* number.                                                                  *)
Damages == {"missing record", "wrong token count", "unknown keyword",
            "non-numeric field"}

Damaged(lines, how, k) ==
    LET line == lines[k]
        n == Len(line)
    IN  IF how = "missing record"
        THEN SubSeq(lines, 1, k - 1) \o SubSeq(lines, k + 1, Len(lines))
        ELSE IF how = "wrong token count"
        THEN [lines EXCEPT ![k] = SubSeq(line, 1, n - 1)]
        ELSE IF how = "unknown keyword"
        THEN [lines EXCEPT ![k][1] = Word("Bogus")]
        ELSE [lines EXCEPT ![k][n] = Word("abc")]

Corrupt(how, k) ==
    /\ pao_file.written
    /\ pao_file.damage = "none"
    /\ pao_out.status = "none"
    /\ k \in DOMAIN pao_file.lines
    /\ Len(pao_file.lines[k]) >= 2
    /\ how = "non-numeric field" => IsNum(pao_file.lines[k][Len(pao_file.lines[k])])
    /\ pao_file' = [written |-> TRUE, damage |-> how,
                    where |-> pao_file.lines[k][1].s,
                    lines |-> Damaged(pao_file.lines, how, k)]
    /\ UNCHANGED <<pao_in, pao_out, energy_file, energy_out>>
    /\ UNCHANGED <<asmVars, fwdVars, lossVars>>

-----------------------------------------------------------------------------
(* read_cp2k_energy, lines 377-385.  A line of the energy file is whether   *)
(* it holds "ENERGY|" and the tokens that follow it.                        *)

\* re.search finds the first line that holds the marker
RECURSIVE FirstMatch(_)
FirstMatch(lines) ==
    IF lines = <<>> THEN 0
    ELSE IF Head(lines).marker THEN 1
    ELSE IF FirstMatch(Tail(lines)) = 0 THEN 0
    ELSE 1 + FirstMatch(Tail(lines))

NaN == [status |-> "returned", nan |-> TRUE, value |-> 0]

\* every exception of the try block ends in the return of line 385
read_cp2k_energy(f) ==
    IF ~f.exists THEN NaN
    ELSE IF FirstMatch(f.lines) = 0 THEN NaN
    ELSE LET rest == f.lines[FirstMatch(f.lines)].rest
         IN  IF rest = <<>> THEN NaN
             ELSE IF ~IsNum(rest[Len(rest)]) THEN NaN
             ELSE [status |-> "returned", nan |-> FALSE,
                   value |-> FloatOf(rest[Len(rest)])]

ReadCp2kEnergy ==
    /\ energy_file.given
    /\ energy_out.status = "none"
    /\ energy_out' = read_cp2k_energy(energy_file)
    /\ UNCHANGED <<pao_in, pao_file, pao_out, energy_file>>
    /\ UNCHANGED <<asmVars, fwdVars, lossVars>>

-----------------------------------------------------------------------------
(* The inputs of the file operations.                                       *)

\* lines 32-59, the symbols used here
atomic_numbers == [H |-> 1, C |-> 6, N |-> 7, O |-> 8]

KindSymbols == <<"H", "O", "C", "N">>

\* a name of one word, the empty name, a name with a blank in it
NameShapes == {"word", "empty", "blank"}

Shaped(w, shape) ==
    IF shape = "word" THEN <<w>>
    ELSE IF shape = "empty" THEN <<>>
    ELSE <<w, "x">>

\* entries of a block in units of 1e-7: 1.0, -0.3333333, 0.1234567,
\* 0.0000004, -0.0000006, 0.5
XSamples == <<10000000, -3333333, 1234567, 4, -6, 5000000>>

XEntry(xsel, a, r, c) == XSamples[((xsel + a + 2 * r + 3 * c) % Len(XSamples)) + 1]

PaoInput(nk, natoms, m, n, nshape, bshape, xsel) ==
    LET kname(k) == IF k = 1 THEN Shaped(KindSymbols[k], nshape) ELSE <<KindSymbols[k]>>
    IN  [kinds |-> [k \in 1..nk |->
                       [name |-> kname(k),
                        atomic_number |-> atomic_numbers[KindSymbols[k]],
                        nparams |-> 0,
                        prim_basis_size |-> n,
                        prim_basis_name |-> Shaped("DZVP-MOLOPT-GTH", bshape),
                        pao_basis_size |-> m]],
         atom2kind |-> [a \in 1..natoms |-> kname(((a - 1) % nk) + 1)],
         coords |-> [a \in 1..natoms |-> <<a * 10000000, 0, 5000000>>],
         xblocks |-> [a \in 1..natoms |->
                         [shape |-> <<m, n>>,
                          rows |-> [r \in 1..m |-> [c \in 1..n |->
                                       XEntry(xsel, a, r, c)]]]]]

EnergyRests ==
    {<<>>, <<FltTok(-170000000)>>, <<Word("Total"), FltTok(-170000000)>>, <<Word("abc")>>}

EnergyFiles ==
    {[given |-> TRUE, exists |-> FALSE, lines |-> <<>>]}
    \cup {[given |-> TRUE, exists |-> TRUE, lines |-> ls] :
              ls \in UNION {[1..n -> [marker : BOOLEAN, rest : EnergyRests]] : n \in 0..2}}

InitFile ==
    /\ \/ /\ \E nk \in 1..MaxKinds, natoms \in 1..MaxAtoms, m \in 1..MaxDim,
                n \in 1..MaxDim, nshape \in NameShapes, bshape \in NameShapes,
                xsel \in 0..1 :
                  pao_in = PaoInput(nk, natoms, m, n, nshape, bshape, xsel)
          /\ energy_file = NoEnergyFile
       \/ /\ pao_in = [kinds |-> <<>>, atom2kind |-> <<>>, coords |-> <<>>,
                        xblocks |-> <<>>]
          /\ energy_file \in EnergyFiles
    /\ pao_file = NoFile
    /\ pao_out = [status |-> "none"]
    /\ energy_out = [status |-> "none"]
    /\ prim_basis_spec = <<>>
    /\ wsel = 1
    /\ psel = 1
    /\ batch = 1
    /\ IdleAssembler
    /\ IdleForward
    /\ IdleLoss

NextFile ==
    \/ WritePaoFile
    \/ \E how \in Damages : \E k \in 1..Len(pao_file.lines) : Corrupt(how, k)
    \/ ParsePaoFile
    \/ ReadCp2kEnergy

SpecFile == InitFile /\ [][NextFile]_vars

-----------------------------------------------------------------------------
(* The loss functions, lines 441-455.  A matrix is the sequence of its      *)
(* rows; a mean is held as the fraction num / den.                          *)

Transpose(M) == [c \in 1..Len(M[1]) |-> [r \in 1..Len(M) |-> M[r][c]]]

\* A @ B
MatProduct(A, B) ==
    [r \in 1..Len(A) |-> [c \in 1..Len(B[1]) |->
        SumSeq([k \in 1..Len(B) |-> A[r][k] * B[k][c]])]]

\* pred @ pred.T, the two factors in the other order
ProjectorOuter(pred) == MatProduct(pred, Transpose(pred))

\* lines 443-444 and 451-452: pred.T @ pred
Projector(pred) == MatProduct(Transpose(pred), pred)

\* the sum of the squares of the entries of A - B
SquaredResidual(A, B) ==
    SumSeq([r \in 1..Len(A) |->
        SumSeq([c \in 1..Len(A[r]) |-> (A[r][c] - B[r][c]) * (A[r][c] - B[r][c])])])

\* lines 448-455
loss_function_ortho_projector(pred, label) ==
    LET pred_projector == Projector(pred)
        label_projector == Projector(label)
    IN  [num |-> SquaredResidual(pred_projector, label_projector),
         den |-> Len(pred_projector) * Len(pred_projector[1])]

\* lines 441-446: the mean runs over the entries of all samples
loss_function_ortho_projector_batch(pred, label) ==
    LET pred_projector == [b \in 1..Len(pred) |-> Projector(pred[b])]
        label_projector == [b \in 1..Len(label) |-> Projector(label[b])]
    IN  [num |-> SumSeq([b \in 1..Len(pred) |->
                    SquaredResidual(pred_projector[b], label_projector[b])]),
         den |-> Len(pred) * Len(pred_projector[1]) * Len(pred_projector[1][1])]

\* the per-sample loss of every sample of the batch
LossFunctionOrthoProjector ==
    /\ loss_in.how # "none"
    /\ loss_out.single = <<>>
    /\ loss_out' = [loss_out EXCEPT !.single =
           [b \in 1..Len(loss_in.pred) |->
               loss_function_ortho_projector(loss_in.pred[b], loss_in.label[b])]]
    /\ UNCHANGED loss_in
    /\ UNCHANGED <<asmVars, fwdVars, fileVars>>

\* the loss of the batch, as lines 546 and 566 ask for it
LossFunctionOrthoProjectorBatch ==
    /\ loss_in.how # "none"
    /\ loss_out.batch = <<>>
    /\ loss_out' = [loss_out EXCEPT !.batch =
           <<loss_function_ortho_projector_batch(loss_in.pred, loss_in.label)>>]
    /\ UNCHANGED loss_in
    /\ UNCHANGED <<asmVars, fwdVars, fileVars>>

RECURSIVE Pow3(_)
Pow3(k) == IF k = 0 THEN 1 ELSE 3 * Pow3(k - 1)

\* the s-th m x n matrix with entries in -1..1
MatrixOf(s, m, n) ==
    [r \in 1..m |-> [c \in 1..n |-> ((s \div Pow3((r - 1) * n + c - 1)) % 3) - 1]]

\* the orthogonal matrices with integer entries: a permutation of the rows,
\* each with a sign
SignedPermutations(m) ==
    {[r \in 1..m |-> [c \in 1..m |-> IF c = p[r] THEN sg[r] ELSE 0]] :
        p \in {f \in [1..m -> 1..m] : \A a, b \in 1..m : f[a] = f[b] => a = b},
        sg \in [1..m -> {-1, 1}]}

InitLoss ==
    /\ \E B \in 1..MaxBatch, m \in 1..MaxDim, n \in 1..MaxDim :
       \E s \in 0..(Min(Pow3(m * n), MaxMatrices) - 1) :
          LET count == Pow3(m * n)
              pred == [b \in 1..B |-> MatrixOf((s + 5 * (b - 1)) % count, m, n)]
          IN  \/ loss_in = [how |-> "same", pred |-> pred, label |-> pred]
              \/ \E R \in SignedPermutations(m) :
                     loss_in = [how |-> "rotated", pred |-> pred,
                                label |-> [b \in 1..B |-> MatProduct(R, pred[b])]]
              \/ loss_in = [how |-> "other", pred |-> pred,
                            label |-> [b \in 1..B |->
                                MatrixOf((2 * s + 7 * b) % count, m, n)]]
    /\ loss_out = NoLoss
    /\ prim_basis_spec = <<>>
    /\ wsel = 1
    /\ psel = 1
    /\ batch = 1
    /\ IdleAssembler
    /\ IdleForward
    /\ IdleFile

NextLoss ==
    \/ LossFunctionOrthoProjector
    \/ LossFunctionOrthoProjectorBatch

SpecLoss == InitLoss /\ [][NextLoss]_vars

-----------------------------------------------------------------------------
(* Properties of init_pao_models and forward.                               *)

\* the columns of Q the last call did not return
Unselected ==
    (0..(result.cols - 1)) \ {result.selected[k] : k \in DOMAIN result.selected}

\* the reduced size is one the basis allows
SizeInRange ==
    1 <= model.pao_basis_size /\ model.pao_basis_size <= IrrepsDim(model.prim_basis_spec)

C3_NoMixing ==
    result.status = "ok" =>
        \A r \in DOMAIN result.owner :
            /\ result.shifted_by[r] = result.owner[r]
            /\ result.summed_into[r] = result.owner[r]

(* C6: the predicted basis has exactly m = pao_basis_size rows and n        *)
(* columns for every pao_basis_size a model can be constructed with.        *)
C6_ShapeIsMByN ==
    result.status = "ok" =>
        /\ result.rows = model.pao_basis_size
        /\ result.cols = IrrepsDim(model.prim_basis_spec)

(* C7: a basis specification whose stated sizes disagree with the declared  *)
(* channel blocks is rejected at construction: no model is produced.        *)
C7_MalformedRejected ==
    model.built =>
        /\ kind.prim_basis_size = IrrepsDim(model.prim_basis_spec)
        /\ 1 <= kind.pao_basis_size
        /\ kind.pao_basis_size <= IrrepsDim(model.prim_basis_spec)

(* C9: the gradient a forward call returns holds the derivative of that     *)
(* call's prediction alone, whatever calls came before on the same data.    *)
C9_FreshGradient ==
    result.status = "ok" =>
        result.gradients = <<[src |-> "pao_vectors", call |-> result.call]>>

(* C15: at every optimizer.step() of train_model_epoch the parameter        *)
(* gradients hold the gradient of the current batch's loss and nothing      *)
(* else: not what forward's own backward pass wrote, not what an earlier    *)
(* batch or a validation pass left.                                         *)
C15_StepUsesCurrentLossOnly ==
    (result.status = "ok" /\ result.stepped) =>
        result.step = <<[src |-> "loss", call |-> result.call]>>

\* a step taken for a batch that was not the first to go through forward
C15_Witness ==
    /\ result.status = "ok"
    /\ result.stepped
    /\ result.call >= 2

-----------------------------------------------------------------------------
(* Properties of the block file and of the energy file.                     *)

\* the string a name is, against the token the parser kept of it
SameName(orig, tok) == tok.t = "str" /\ orig = <<tok.s>>

\* a kind of the table handed to write_pao_file, against a parsed one
SameKind(orig, parsed) ==
    /\ SameName(orig.name, parsed.name)
    /\ parsed.kind.atomic_number = orig.atomic_number
    /\ parsed.kind.nparams = orig.nparams
    /\ parsed.kind.prim_basis_size = orig.prim_basis_size
    /\ parsed.kind.pao_basis_size = orig.pao_basis_size
    /\ parsed.kind.prim_basis_name # <<>>
    /\ SameName(orig.prim_basis_name, parsed.kind.prim_basis_name)

(* C8: a file with a missing record, a wrong token count, an unknown        *)
(* keyword or a non-numeric field makes parse_pao_file fail instead of      *)
(* returning, and read_cp2k_energy never returns NaN in place of an error.  *)
C8_MalformedFails ==
    /\ (pao_file.damage # "none" /\ pao_out.status # "none") => pao_out.status = "error"
    /\ energy_out.status = "returned" => ~energy_out.nan

(* C10: parsing the file write_pao_file wrote returns the same kinds, the   *)
(* same atom-to-kind list and, for each atom, a block of the same shape     *)
(* with the same entries at the same row-major positions.                   *)
C10_RoundTrip ==
    (pao_file.written /\ pao_file.damage = "none" /\ pao_out.status # "none") =>
        IF pao_out.status # "ok" THEN FALSE
        ELSE /\ Len(pao_out.kinds) = Len(pao_in.kinds)
             /\ \A k \in DOMAIN pao_in.kinds : SameKind(pao_in.kinds[k], pao_out.kinds[k])
             /\ Len(pao_out.atom2kind) = Len(pao_in.atom2kind)
             /\ \A a \in DOMAIN pao_in.atom2kind :
                    SameName(pao_in.atom2kind[a], pao_out.atom2kind[a])
             /\ pao_out.unshaped = <<>>
             /\ Len(pao_out.xblocks) = Len(pao_in.xblocks)
             /\ \A a \in DOMAIN pao_in.xblocks : pao_out.xblocks[a] = pao_in.xblocks[a]

-----------------------------------------------------------------------------
(* Properties of the loss functions.                                        *)

\* the mean of fractions with one denominator
MeanOf(fs) ==
    [num |-> SumSeq([b \in 1..Len(fs) |-> fs[b].num]), den |-> fs[1].den * Len(fs)]

SameFraction(x, y) == x.num * y.den = y.num * x.den

(* C11: the loss of P against itself is 0; the loss of P against R*P is 0   *)
(* for every orthogonal R, such as a signed permutation of the rows; the    *)
(* batched loss equals the mean of the per-sample losses.                   *)
C11_LossZeroPoint ==
    /\ (loss_out.single # <<>> /\ loss_in.how \in {"same", "rotated"}) =>
           \A b \in DOMAIN loss_out.single : loss_out.single[b].num = 0
    /\ (loss_out.batch # <<>> /\ loss_in.how \in {"same", "rotated"}) =>
           loss_out.batch[1].num = 0
    /\ (loss_out.single # <<>> /\ loss_out.batch # <<>>) =>
           SameFraction(loss_out.batch[1], MeanOf(loss_out.single))

\* both losses computed for a batch of two samples of two rows whose labels
\* are the predictions with rows exchanged or negated, none equal to its
\* prediction and no projector zero
C11_Witness ==
    /\ loss_out.single # <<>>
    /\ loss_out.batch # <<>>
    /\ loss_in.how = "rotated"
    /\ Len(loss_in.pred) >= 2
    /\ Len(loss_in.pred[1]) >= 2
    /\ \A b \in DOMAIN loss_in.pred :
           /\ loss_in.label[b] # loss_in.pred[b]
           /\ \E r \in DOMAIN Projector(loss_in.pred[b]) :
                  \E c \in DOMAIN Projector(loss_in.pred[b])[r] :
                      r # c /\ Projector(loss_in.pred[b])[r][c] # 0

=============================================================================
